---------------------------- MODULE Spec2Model ----------------------------
(***************************************************************************)
(* State-machine model of the RAG backend: the HTTP handlers of main.py,   *)
(* the orchestration of RAGSystem, the lazily loaded EmbeddingManager and  *)
(* the VectorStoreManager wrapping one named, persistent collection.       *)
(*                                                                         *)
(* Third-party collaborators (PDF/Excel loaders, the text splitter, the    *)
(* sentence-embedding model, the vector database and the hosted LLM) are   *)
(* modelled at the call sites of the repository by what they return or     *)
(* raise; an environment fault names the collaborator that raises during   *)
(* one call of the pipeline.                                               *)
(***************************************************************************)
EXTENDS Integers, Sequences, FiniteSets, TLC

(***************************************************************************)
(* Bounds of the model.                                                    *)
(***************************************************************************)
\* most records an ingest may bring the collection to (an ingest that would
\* exceed it is not issued)
MaxStore == 2
\* size of the space the truncated uuid prefix of a record id is drawn from
UuidSpace == 2

(***************************************************************************)
(* Program constants.                                                      *)
(***************************************************************************)
TOP_K_RESULTS == 3

(***************************************************************************)
(* Text.  A text is a sequence of characters; characters are small         *)
(* numbers.  ParaSep stands for the paragraph break "\n\n", the first      *)
(* separator of the splitter; Colon and Bar for ": " and " | ".            *)
(***************************************************************************)
ParaSep == 0
Colon == 8
Bar == 9

RECURSIVE SumSeq(_)
SumSeq(s) == IF s = <<>> THEN 0 ELSE Head(s) + SumSeq(Tail(s))

Min(a, b) == IF a <= b THEN a ELSE b

(***************************************************************************)
(* Uploaded files.  A file is known by its name; the tables below give the *)
(* suffix the handlers test, whether the name can be opened for writing    *)
(* under the upload directory, and what the loader reads from the file.    *)
(***************************************************************************)
FileNames ==
    {"a.pdf", "b.xlsx", "c.xls", "empty.pdf", "bad.pdf", "notes.txt", "sub/notes.txt"}

Suffix(f) ==
    CASE f = "a.pdf" -> ".pdf"
      [] f = "empty.pdf" -> ".pdf"
      [] f = "bad.pdf" -> ".pdf"
      [] f = "d.pdf" -> ".pdf"
      [] f = "e.pdf" -> ".pdf"
      [] f = "b.xlsx" -> ".xlsx"
      [] f = "c.xls" -> ".xls"
      [] OTHER -> ".txt"

\* open(os.path.join(UPLOAD_DIR, filename), "wb"): a name with a directory
\* component that does not exist under the upload directory cannot be opened
Savable(f) == f # "sub/notes.txt"

\* whether the loader can parse the saved file
Parsable(f) == f # "bad.pdf"

\* pages of a PDF: one text per page
PdfPages(f) ==
    CASE f = "a.pdf" -> << <<1, ParaSep, 2, 2>> >>
      [] f = "empty.pdf" -> << <<>> >>
      [] f = "d.pdf" -> << <<7>> >>
      [] f = "e.pdf" -> << <<7, 7>> >>
      [] OTHER -> <<>>

\* Directories handed to ingest_directory: what Path(dir).glob("**/*.pdf")
\* finds in each, in the order it yields them (e.pdf lies in a subdirectory;
\* the directory "nopdf" holds notes.txt only)
DirNames == {"docs", "nopdf", "broken"}

DirPdfs(d) ==
    CASE d = "docs" -> <<"d.pdf", "e.pdf">>
      [] d = "broken" -> <<"d.pdf", "bad.pdf">>
      [] OTHER -> <<>>

\* rows of a spreadsheet: each row a sequence of <<column, value>> cells
ExcelRows(f) ==
    CASE f = "b.xlsx" -> << << <<3, 4>> >> >>
      [] f = "c.xls" -> << << <<3, 5>>, <<6, 7>> >> >>
      [] OTHER -> <<>>


(***************************************************************************)
(* DocumentProcessor.  A loader result and a splitter result are records   *)
(* [err, docs]: err is "none" or the name of the error raised.             *)
(***************************************************************************)
RECURSIVE PdfDocuments(_, _, _)
PdfDocuments(f, pages, n) ==
    IF pages = <<>> THEN <<>>
    ELSE << [page_content |-> Head(pages),
             metadata |-> [file_name |-> f, file_type |-> "pdf", unit |-> n]] >>
         \o PdfDocuments(f, Tail(pages), n + 1)

\* process_pdf: one document per page, in page order, tagged with the file
process_pdf(f) ==
    IF Parsable(f) /\ Suffix(f) = ".pdf"
    THEN [err |-> "none", docs |-> PdfDocuments(f, PdfPages(f), 0)]
    ELSE [err |-> "ExtractionError", docs |-> <<>>]

\* the loop of process_all_pdfs: the pages of every file in turn; the first
\* file that cannot be loaded ends the call with its error
RECURSIVE AllPdfDocuments(_)
AllPdfDocuments(fs) ==
    IF fs = <<>> THEN [err |-> "none", docs |-> <<>>]
    ELSE LET first == process_pdf(Head(fs))
             rest == AllPdfDocuments(Tail(fs))
         IN IF first.err # "none" THEN first
            ELSE IF rest.err # "none" THEN rest
            ELSE [err |-> "none", docs |-> first.docs \o rest.docs]

\* process_all_pdfs: the documents of all PDF files under the directory
process_all_pdfs(d) == AllPdfDocuments(DirPdfs(d))

\* " | ".join(f"{col}: {val}" for col, val in row.items())
RECURSIVE RowContent(_)
RowContent(cells) ==
    IF cells = <<>> THEN <<>>
    ELSE LET c == Head(cells)
             cell == <<c[1], Colon, c[2]>>
         IN IF Tail(cells) = <<>> THEN cell
            ELSE cell \o <<Bar>> \o RowContent(Tail(cells))

RECURSIVE ExcelDocuments(_, _, _)
ExcelDocuments(f, rows, n) ==
    IF rows = <<>> THEN <<>>
    ELSE << [page_content |-> RowContent(Head(rows)),
             metadata |-> [file_name |-> f, file_type |-> "excel", unit |-> n]] >>
         \o ExcelDocuments(f, Tail(rows), n + 1)

\* process_excel: one document per row, in row order
process_excel(f) ==
    IF Parsable(f) /\ Suffix(f) \in {".xlsx", ".xls"}
    THEN [err |-> "none", docs |-> ExcelDocuments(f, ExcelRows(f), 0)]
    ELSE [err |-> "ExtractionError", docs |-> <<>>]

\* The splitter cuts a text at its first separator, the paragraph break, and
\* keeps the non-empty pieces; every paragraph of the modelled files stands
\* for one window of at most CHUNK_SIZE characters.
RECURSIVE SplitText(_, _)
SplitText(text, cur) ==
    IF text = <<>> THEN (IF cur = <<>> THEN <<>> ELSE <<cur>>)
    ELSE IF Head(text) = ParaSep
         THEN (IF cur = <<>> THEN <<>> ELSE <<cur>>) \o SplitText(Tail(text), <<>>)
         ELSE SplitText(Tail(text), Append(cur, Head(text)))

RECURSIVE SplitDocuments(_)
SplitDocuments(docs) ==
    IF docs = <<>> THEN <<>>
    ELSE LET d == Head(docs)
             pieces == SplitText(d.page_content, <<>>)
         IN [i \in 1..Len(pieces) |->
                [page_content |-> pieces[i], metadata |-> d.metadata]]
            \o SplitDocuments(Tail(docs))

\* create_chunks: the splitter's chunks, or its error re-raised
create_chunks(docs, fault) ==
    IF fault = "split"
    THEN [err |-> "SplitError", docs |-> <<>>]
    ELSE [err |-> "none", docs |-> SplitDocuments(docs)]

\* the chunks the splitter produces from a file of a supported type
ChunksOf(f) ==
    IF Suffix(f) = ".pdf" THEN SplitDocuments(process_pdf(f).docs)
    ELSE SplitDocuments(process_excel(f).docs)

\* the chunks the splitter produces from the PDF files of a directory
DirChunks(d) == SplitDocuments(process_all_pdfs(d).docs)

(***************************************************************************)
(* EmbeddingManager.  model is "None" until a load succeeds.               *)
(***************************************************************************)
\* SentenceTransformer.encode on one text: a fixed function of the text
Encode(text) == SumSeq(text) + Len(text)

\* generate_embeddings with the is-None check removed: loads on every call
GenerateEmbeddingsAlwaysLoad(m, texts, fault) ==
    IF fault = "modelload"
    THEN [err |-> "ModelLoadError", model |-> "None", loads |-> 1, vectors |-> <<>>]
    ELSE IF fault = "encode"
    THEN [err |-> "EncodeError", model |-> "loaded", loads |-> 1, vectors |-> <<>>]
    ELSE [err |-> "none", model |-> "loaded", loads |-> 1,
          vectors |-> [i \in 1..Len(texts) |-> Encode(texts[i])]]

\* generate_embeddings: load the model only when self.model is None (a failed
\* load leaves it None and re-raises), then encode every text in order
generate_embeddings(m, texts, fault) ==
    LET needLoad == (m = "None")
        loads == IF needLoad THEN 1 ELSE 0
    IN IF needLoad /\ fault = "modelload"
       THEN [err |-> "ModelLoadError", model |-> "None", loads |-> loads, vectors |-> <<>>]
       ELSE IF fault = "encode"
       THEN [err |-> "EncodeError", model |-> "loaded", loads |-> loads, vectors |-> <<>>]
       ELSE [err |-> "none", model |-> "loaded", loads |-> loads,
             vectors |-> [i \in 1..Len(texts) |-> Encode(texts[i])]]

(***************************************************************************)
(* VectorStoreManager.  The client's database holds at most one collection *)
(* under COLLECTION_NAME: exists says that it holds one, store is that     *)
(* collection's records in insertion order, and bound says that            *)
(* self.collection refers to that collection rather than to a deleted one. *)
(* A call through a handle whose collection was deleted raises.            *)
(***************************************************************************)
IdsOf(recs) == {recs[i].id : i \in 1..Len(recs)}

\* the loop of add_documents over zip(documents, embeddings): ids
\* doc_<uuid prefix>_<i>, metadata augmented with doc_index and content_length
BuildBatch(documents, embeddings, uuids) ==
    [j \in 1..Min(Len(documents), Len(embeddings)) |->
        [id |-> <<uuids[j], j - 1>>,
         document |-> documents[j].page_content,
         metadata |-> [file_name |-> documents[j].metadata.file_name,
                       file_type |-> documents[j].metadata.file_type,
                       unit |-> documents[j].metadata.unit,
                       doc_index |-> j - 1,
                       content_length |-> Len(documents[j].page_content)],
         embedding |-> embeddings[j]]]

\* collection.add: raises on a deleted collection, on an empty batch and on
\* a backend failure, writing nothing; a record whose id the collection
\* already holds is ignored and the stored record is kept
CollectionAdd(recs, live, batch, fault) ==
    IF ~live \/ fault = "add" THEN [err |-> "StoreError", store |-> recs, clash |-> FALSE]
    ELSE IF batch = <<>> THEN [err |-> "EmptyBatchError", store |-> recs, clash |-> FALSE]
    ELSE [err |-> "none",
          store |-> recs \o SelectSeq(batch, LAMBDA r : r.id \notin IdsOf(recs)),
          clash |-> \E j \in 1..Len(batch) : batch[j].id \in IdsOf(recs)]

\* self.collection.count() in the log line that follows collection.add: when
\* it raises, the exception leaves add_documents after the records were written
CountAfterAdd(added, fault) ==
    IF added.err = "none" /\ fault = "count"
    THEN [added EXCEPT !.err = "StoreError"]
    ELSE added

\* collection.upsert: as collection.add, but a record whose id the collection
\* already holds replaces the stored one
CollectionUpsert(recs, live, batch, fault) ==
    IF ~live \/ fault = "add" THEN [err |-> "StoreError", store |-> recs, clash |-> FALSE]
    ELSE IF batch = <<>> THEN [err |-> "EmptyBatchError", store |-> recs, clash |-> FALSE]
    ELSE [err |-> "none",
          store |-> [i \in 1..Len(recs) |->
                        IF \E j \in 1..Len(batch) : batch[j].id = recs[i].id
                        THEN batch[CHOOSE j \in 1..Len(batch) : batch[j].id = recs[i].id]
                        ELSE recs[i]]
                    \o SelectSeq(batch, LAMBDA r : r.id \notin IdsOf(recs)),
          clash |-> \E j \in 1..Len(batch) : batch[j].id \in IdsOf(recs)]

\* add_documents that calls collection.upsert in place of collection.add
AddDocumentsUpsert(recs, live, documents, embeddings, uuids, fault) ==
    IF Len(documents) # Len(embeddings)
    THEN [err |-> "ArityMismatchError", store |-> recs, clash |-> FALSE]
    ELSE CountAfterAdd(
             CollectionUpsert(recs, live, BuildBatch(documents, embeddings, uuids), fault),
             fault)

\* add_documents without the length check: zip pairs up the shorter prefix
AddDocumentsUnchecked(recs, live, documents, embeddings, uuids, fault) ==
    CountAfterAdd(CollectionAdd(recs, live, BuildBatch(documents, embeddings, uuids), fault),
                  fault)

\* add_documents: the arity check, then the batch, then collection.add, then
\* collection.count() for the log line, all inside the try that re-raises
add_documents(recs, live, documents, embeddings, uuids, fault) ==
    IF Len(documents) # Len(embeddings)
    THEN [err |-> "ArityMismatchError", store |-> recs, clash |-> FALSE]
    ELSE CountAfterAdd(CollectionAdd(recs, live, BuildBatch(documents, embeddings, uuids), fault),
                       fault)

Distance(q, e) == (q - e) * (q - e)

\* position of the record nearest to q among recs; the index leaves the order
\* of equally near records open: tie says whether the earliest or the latest
\* inserted of them comes first
NearestIndex(recs, q, tie) ==
    CHOOSE i \in 1..Len(recs) :
        \A j \in 1..Len(recs) :
            \/ Distance(q, recs[i].embedding) < Distance(q, recs[j].embedding)
            \/ /\ Distance(q, recs[i].embedding) = Distance(q, recs[j].embedding)
               /\ IF tie = "first" THEN i <= j ELSE i >= j

RemoveAt(recs, i) == SubSeq(recs, 1, i - 1) \o SubSeq(recs, i + 1, Len(recs))

\* the k records of recs nearest to q, nearest first; all of them when recs
\* holds fewer than k
RECURSIVE Nearest(_, _, _, _)
Nearest(recs, q, k, tie) ==
    IF k <= 0 \/ recs = <<>> THEN <<>>
    ELSE LET i == NearestIndex(recs, q, tie)
         IN <<recs[i]>> \o Nearest(RemoveAt(recs, i), q, k - 1, tie)

\* What one search of the collection's index does, which the library leaves
\* open: approx.miss is the position of a stored record the approximate
\* nearest-neighbour search does not reach (0: it reaches all), approx.tie
\* the order it gives equally near records.
ExactSearch == [miss |-> 0, tie |-> "first"]

\* the searches the index can make for n_results = k on recs: it reaches
\* every record or misses the nearest one, and misses one only when enough
\* others are left to fill the result
Approximations(recs, q, k) ==
    [miss : IF Len(recs) > k THEN {0, NearestIndex(recs, q, "first")} ELSE {0},
     tie : IF \E i, j \in 1..Len(recs) :
                 i # j /\ Distance(q, recs[i].embedding) = Distance(q, recs[j].embedding)
           THEN {"first", "last"} ELSE {"first"}]

\* collection.query(query_embeddings, n_results = k): min(n, k) stored
\* records, no record twice, nearest first among the records the search
\* reached
CollectionQuery(recs, q, k, approx) ==
    LET reached == IF approx.miss \in 1..Len(recs) /\ Len(recs) > k
                   THEN RemoveAt(recs, approx.miss) ELSE recs
    IN Nearest(reached, q, k, approx.tie)

\* query that drops its top_k argument and asks for the configured default
VectorStoreQueryDefaultK(recs, live, q, k, fault, approx) ==
    IF ~live \/ fault = "query" THEN [err |-> "StoreError", hits |-> <<>>]
    ELSE [err |-> "none", hits |-> CollectionQuery(recs, q, TOP_K_RESULTS, approx)]

\* VectorStoreManager.query: collection.query with n_results = top_k, its
\* result returned as it is, any exception re-raised
VectorStoreQuery(recs, live, q, k, fault, approx) ==
    IF ~live \/ fault = "query" THEN [err |-> "StoreError", hits |-> <<>>]
    ELSE [err |-> "none", hits |-> CollectionQuery(recs, q, k, approx)]

\* reset_collection that recreates the collection but leaves self.collection
\* on the deleted one
ResetKeepHandle(recs, ex, bd, fault) ==
    IF ~ex \/ fault = "delete"
    THEN [err |-> "StoreError", store |-> recs, exists |-> ex, bound |-> bd]
    ELSE IF fault = "create"
    THEN [err |-> "StoreError", store |-> <<>>, exists |-> FALSE, bound |-> FALSE]
    ELSE [err |-> "none", store |-> <<>>, exists |-> TRUE, bound |-> FALSE]

\* reset_collection: delete_collection(name), then self.collection =
\* get_or_create_collection(name); an exception of either call is re-raised,
\* the second one after the collection and its records are gone
reset_collection(recs, ex, bd, fault) ==
    IF ~ex \/ fault = "delete"
    THEN [err |-> "StoreError", store |-> recs, exists |-> ex, bound |-> bd]
    ELSE IF fault = "create"
    THEN [err |-> "StoreError", store |-> <<>>, exists |-> FALSE, bound |-> FALSE]
    ELSE [err |-> "none", store |-> <<>>, exists |-> TRUE, bound |-> TRUE]

(***************************************************************************)
(* RAGRetriever and RAGSystem.                                             *)
(***************************************************************************)
PageContents(docs) == [i \in 1..Len(docs) |-> docs[i].page_content]

NoDocsAnswer == "No relevant documents found in the database."

\* what an ingest call leaves behind: the error raised ("none" when it
\* returned), the stages it entered in order, the number of chunks the
\* splitter produced, and the embedding model and collection after it
IngestOutcome(err, stages, produced, m, loads, recs, clash) ==
    [err |-> err, stages |-> stages, produced |-> produced, model |-> m,
     loads |-> loads, store |-> recs, clash |-> clash]

\* ingest that carries on with no chunks when the splitter raises
IngestIgnoringSplitError(kind, f, m, recs, live, uuids, fault) ==
    LET loaded == IF kind = "pdf" THEN process_pdf(f) ELSE process_excel(f)
        chunks == create_chunks(loaded.docs, fault)
        emb == generate_embeddings(m, PageContents(chunks.docs), fault)
        added == add_documents(recs, live, chunks.docs, emb.vectors, uuids, fault)
    IN IF loaded.err # "none"
       THEN IngestOutcome(loaded.err, <<"load">>, 0, m, 0, recs, FALSE)
       ELSE IF emb.err # "none"
       THEN IngestOutcome(emb.err, <<"load", "split", "embed">>, Len(chunks.docs),
                          emb.model, emb.loads, recs, FALSE)
       ELSE IngestOutcome(added.err, <<"load", "split", "embed", "insert">>,
                          Len(chunks.docs), emb.model, emb.loads, added.store, added.clash)

\* ingest_pdf / ingest_excel: load, split, embed, insert, each stage on the
\* result of the one before; the first exception ends the call
ingest(kind, f, m, recs, live, uuids, fault) ==
    LET loaded == IF kind = "pdf" THEN process_pdf(f) ELSE process_excel(f)
        chunks == create_chunks(loaded.docs, fault)
        emb == generate_embeddings(m, PageContents(chunks.docs), fault)
        added == add_documents(recs, live, chunks.docs, emb.vectors, uuids, fault)
    IN IF loaded.err # "none"
       THEN IngestOutcome(loaded.err, <<"load">>, 0, m, 0, recs, FALSE)
       ELSE IF chunks.err # "none"
       THEN IngestOutcome(chunks.err, <<"load", "split">>, 0, m, 0, recs, FALSE)
       ELSE IF emb.err # "none"
       THEN IngestOutcome(emb.err, <<"load", "split", "embed">>, Len(chunks.docs),
                          emb.model, emb.loads, recs, FALSE)
       ELSE IngestOutcome(added.err, <<"load", "split", "embed", "insert">>,
                          Len(chunks.docs), emb.model, emb.loads, added.store, added.clash)

\* ingest_directory: as ingest_pdf, on the documents of all PDF files under
\* the directory, stored in one add_documents batch
ingest_directory(d, m, recs, live, uuids, fault) ==
    LET loaded == process_all_pdfs(d)
        chunks == create_chunks(loaded.docs, fault)
        emb == generate_embeddings(m, PageContents(chunks.docs), fault)
        added == add_documents(recs, live, chunks.docs, emb.vectors, uuids, fault)
    IN IF loaded.err # "none"
       THEN IngestOutcome(loaded.err, <<"load">>, 0, m, 0, recs, FALSE)
       ELSE IF chunks.err # "none"
       THEN IngestOutcome(chunks.err, <<"load", "split">>, 0, m, 0, recs, FALSE)
       ELSE IF emb.err # "none"
       THEN IngestOutcome(emb.err, <<"load", "split", "embed">>, Len(chunks.docs),
                          emb.model, emb.loads, recs, FALSE)
       ELSE IngestOutcome(added.err, <<"load", "split", "embed", "insert">>,
                          Len(chunks.docs), emb.model, emb.loads, added.store, added.clash)

\* RAGRetriever.retrieve then RAGSystem.query: embed the question, query the
\* store for top_k, answer with the fixed sentence when nothing came back,
\* otherwise call the language model once on the joined context
QueryOutcome(err, answer, sources, hits, llm, m, loads) ==
    [err |-> err, answer |-> answer, sources |-> sources, hits |-> hits,
     llmCalls |-> llm, model |-> m, loads |-> loads]

Sources(hits) ==
    [i \in 1..Len(hits) |->
        [content |-> hits[i].document, metadata |-> hits[i].metadata,
         relevance_rank |-> i]]

\* query that calls the language model whatever the retrieval returned
QueryAlwaysGenerating(question, k, m, recs, live, fault, approx) ==
    LET emb == generate_embeddings(m, <<question>>, fault)
        res == VectorStoreQuery(recs, live, emb.vectors[1], k, fault, approx)
    IN IF emb.err # "none"
       THEN QueryOutcome(emb.err, "", <<>>, <<>>, 0, emb.model, emb.loads)
       ELSE IF res.err # "none"
       THEN QueryOutcome(res.err, "", <<>>, <<>>, 0, emb.model, emb.loads)
       ELSE IF fault = "llm"
       THEN QueryOutcome("GenerationError", "", <<>>, res.hits, 1, emb.model, emb.loads)
       ELSE QueryOutcome("none", "generated", Sources(res.hits), res.hits, 1,
                         emb.model, emb.loads)

query(question, k, m, recs, live, fault, approx) ==
    LET emb == generate_embeddings(m, <<question>>, fault)
        res == VectorStoreQuery(recs, live, emb.vectors[1], k, fault, approx)
    IN IF emb.err # "none"
       THEN QueryOutcome(emb.err, "", <<>>, <<>>, 0, emb.model, emb.loads)
       ELSE IF res.err # "none"
       THEN QueryOutcome(res.err, "", <<>>, <<>>, 0, emb.model, emb.loads)
       ELSE IF res.hits = <<>>
       THEN QueryOutcome("none", NoDocsAnswer, <<>>, <<>>, 0, emb.model, emb.loads)
       ELSE IF fault = "llm"
       THEN QueryOutcome("GenerationError", "", <<>>, res.hits, 1, emb.model, emb.loads)
       ELSE QueryOutcome("none", "generated", Sources(res.hits), res.hits, 1,
                         emb.model, emb.loads)

(***************************************************************************)
(* State.                                                                  *)
(***************************************************************************)
VARIABLES
    store,      \* records of the named collection, in insertion order
    exists,     \* the database holds a collection under COLLECTION_NAME
    bound,      \* self.collection refers to that collection
    model,      \* EmbeddingManager.model: "None" or "loaded"
    pc,         \* "idle", or "upload_multiple" while that handler's loop runs
    files,      \* the file list of the /upload-multiple request being served
    pending,    \* the files of it the loop has not reached yet
    results,    \* the result entries the loop has appended
    last,       \* the call that produced this state: its inputs and what it returned
    sinceReset, \* a reset returned and no ingest has succeeded since
    unwritten,  \* a reset returned and no collection.add has written since
    loadTried   \* _load_model has been entered at least once in this process

vars == <<store, exists, bound, model, pc, files, pending, results, last,
          sinceReset, unwritten, loadTried>>

IngestFaults == {"none", "split", "modelload", "encode", "add", "count"}
AddFaults == {"none", "add", "count"}
StatsFaults == {"none", "count"}
QueryFaults == {"none", "modelload", "encode", "query", "llm"}
ResetFaults == {"none", "delete", "create"}
Questions == {<<5>>}
\* the top_k values requests carry: two results and the configured default
TopKs == {2, TOP_K_RESULTS}
\* the file lists /upload-multiple requests carry
MultiRequests ==
    { <<"a.pdf", "notes.txt">>,
      <<"sub/notes.txt", "b.xlsx">>,
      <<"bad.pdf", "c.xls", "empty.pdf">>,
      <<"b.xlsx", "notes.txt", "b.xlsx">> }

Live == exists /\ bound

Blank ==
    [op |-> "start", file |-> "", dir |-> "", question |-> <<>>, k |-> 0, fault |-> "none",
     err |-> "none", code |-> 0, saved |-> FALSE, ingested |-> FALSE,
     stages |-> <<>>, produced |-> 0, hits |-> <<>>, answer |-> "",
     sources |-> <<>>, total |-> 0, llmCalls |-> 0, loads |-> 0, clash |-> FALSE,
     nDocs |-> 0, nEmb |-> 0, countBefore |-> 0, files |-> <<>>, results |-> <<>>]

\* the records an ingest of file f that returned adds to recs
Ingested(recs, f, uuids) ==
    add_documents(recs, TRUE, ChunksOf(f),
                  [i \in 1..Len(ChunksOf(f)) |-> Encode(ChunksOf(f)[i].page_content)],
                  uuids, "none").store

\* what the persistent collection can hold when the process starts: nothing,
\* the chunk an earlier process ingested from b.xlsx, or the chunks it
\* ingested from a.pdf and then from b.xlsx
PersistedStores ==
    { <<>>,
      Ingested(<<>>, "b.xlsx", <<1>>),
      Ingested(Ingested(<<>>, "a.pdf", <<1, 1>>), "b.xlsx", <<2>>) }

\* module import of main.py: RAGSystem() builds the components, the store
\* gets or creates the named collection, the embedding model is not loaded
Init ==
    /\ store \in PersistedStores
    /\ exists = TRUE
    /\ bound = TRUE
    /\ model = "None"
    /\ pc = "idle"
    /\ files = <<>>
    /\ pending = <<>>
    /\ results = <<>>
    /\ last = Blank
    /\ sinceReset = FALSE
    /\ unwritten = FALSE
    /\ loadTried = FALSE

Called(name) == [Blank EXCEPT !.op = name, !.countBefore = Len(store)]

\* what a request handler records of the ingest it ran
WithIngest(rec, r, fault) ==
    [rec EXCEPT !.fault = fault, !.err = r.err, !.saved = TRUE, !.ingested = TRUE,
                !.stages = r.stages, !.produced = r.produced, !.loads = r.loads,
                !.clash = r.clash]

UuidChoices(n) == [1..n -> 1..UuidSpace]

\* the uuid4() draws of one ingest of n chunks: one per chunk in the loop of
\* add_documents, none when an earlier stage raised
UuidDraws(n, fault) ==
    IF fault \in {"split", "modelload", "encode"} THEN {<<>>} ELSE UuidChoices(n)

\* the collaborator failures that can occur while file f is handled: none
\* before the file reaches the pipeline, no load failure once the model is loaded
FaultsFor(f) ==
    IF ~Savable(f) \/ ~Parsable(f) \/ Suffix(f) \notin {".pdf", ".xlsx", ".xls"}
    THEN {"none"}
    ELSE IF model = "None" THEN IngestFaults ELSE IngestFaults \ {"modelload"}

(***************************************************************************)
(* HTTP handlers.  A handler is an async function that never awaits, so it *)
(* runs from its first line to its return before the next request starts.  *)
(***************************************************************************)
\* the try block of upload_pdf / upload_excel: save the file, ingest it
UploadSingle(name, kind, f, uuids, fault) ==
    IF ~Savable(f)
    THEN /\ last' = [Called(name) EXCEPT !.file = f, !.fault = fault,
                                         !.err = "SaveError", !.code = 500]
         /\ UNCHANGED <<store, model, sinceReset, unwritten, loadTried>>
    ELSE LET r == ingest(kind, f, model, store, Live, uuids, fault)
         IN /\ store' = r.store
            /\ model' = r.model
            /\ loadTried' = (loadTried \/ r.loads > 0)
            /\ sinceReset' = (sinceReset /\ r.err # "none")
            /\ unwritten' = (unwritten /\ r.store = store)
            /\ last' = [WithIngest(Called(name), r, fault) EXCEPT
                            !.file = f, !.code = IF r.err = "none" THEN 200 ELSE 500]

\* POST /upload-pdf
UploadPdf(f, uuids, fault) ==
    /\ pc = "idle"
    /\ Len(store) + Len(ChunksOf(f)) <= MaxStore
    /\ IF Suffix(f) # ".pdf"
       THEN /\ last' = [Called("upload_pdf") EXCEPT !.file = f, !.err = "BadRequest",
                                                    !.code = 400]
            /\ UNCHANGED <<store, model, sinceReset, unwritten, loadTried>>
       ELSE UploadSingle("upload_pdf", "pdf", f, uuids, fault)
    /\ UNCHANGED <<exists, bound, pc, files, pending, results>>

\* POST /upload-excel
UploadExcel(f, uuids, fault) ==
    /\ pc = "idle"
    /\ Len(store) + Len(ChunksOf(f)) <= MaxStore
    /\ IF Suffix(f) \notin {".xlsx", ".xls"}
       THEN /\ last' = [Called("upload_excel") EXCEPT !.file = f, !.err = "BadRequest",
                                                      !.code = 400]
            /\ UNCHANGED <<store, model, sinceReset, unwritten, loadTried>>
       ELSE UploadSingle("upload_excel", "excel", f, uuids, fault)
    /\ UNCHANGED <<exists, bound, pc, files, pending, results>>

\* one pass of the loop of upload_multiple_files without its try/except:
\* an exception of the save or of the ingest leaves the handler
UploadMultipleFileNoCatch(f, m, recs, live, uuids, fault) ==
    LET same == IngestOutcome("none", <<>>, 0, m, 0, recs, FALSE)
        kind == IF Suffix(f) = ".pdf" THEN "pdf" ELSE "excel"
        r == ingest(kind, f, m, recs, live, uuids, fault)
    IN IF ~Savable(f)
       THEN [status |-> "error", raised |-> TRUE, saved |-> FALSE, ingested |-> FALSE,
             out |-> [same EXCEPT !.err = "SaveError"]]
       ELSE IF Suffix(f) \in {".pdf", ".xlsx", ".xls"}
       THEN [status |-> IF r.err = "none" THEN "success" ELSE "error",
             raised |-> r.err # "none", saved |-> TRUE, ingested |-> TRUE, out |-> r]
       ELSE [status |-> "skipped", raised |-> FALSE, saved |-> TRUE, ingested |-> FALSE,
             out |-> same]

\* one pass of the loop of upload_multiple_files: save the file, ingest it
\* by its suffix or skip it, and turn any exception into an "error" entry
UploadMultipleFile(f, m, recs, live, uuids, fault) ==
    LET same == IngestOutcome("none", <<>>, 0, m, 0, recs, FALSE)
        kind == IF Suffix(f) = ".pdf" THEN "pdf" ELSE "excel"
        r == ingest(kind, f, m, recs, live, uuids, fault)
    IN IF ~Savable(f)
       THEN [status |-> "error", raised |-> FALSE, saved |-> FALSE, ingested |-> FALSE,
             out |-> [same EXCEPT !.err = "SaveError"]]
       ELSE IF Suffix(f) \in {".pdf", ".xlsx", ".xls"}
       THEN [status |-> IF r.err = "none" THEN "success" ELSE "error",
             raised |-> FALSE, saved |-> TRUE, ingested |-> TRUE, out |-> r]
       ELSE [status |-> "skipped", raised |-> FALSE, saved |-> TRUE, ingested |-> FALSE,
             out |-> same]

RECURSIVE TotalChunks(_)
TotalChunks(fs) ==
    IF fs = <<>> THEN 0 ELSE Len(ChunksOf(Head(fs))) + TotalChunks(Tail(fs))

\* POST /upload-multiple is entered: results = []
UploadMultipleStart(fs) ==
    /\ pc = "idle"
    /\ Len(store) + TotalChunks(fs) <= MaxStore
    /\ pc' = "upload_multiple"
    /\ files' = fs
    /\ pending' = fs
    /\ results' = <<>>
    /\ last' = Called("upload_multiple_start")
    /\ UNCHANGED <<store, exists, bound, model, sinceReset, unwritten, loadTried>>

\* one iteration of "for file in files"
UploadMultipleStep(uuids, fault) ==
    /\ pc = "upload_multiple"
    /\ pending # <<>>
    /\ fault \in FaultsFor(Head(pending))
    /\ uuids \in UuidDraws(Len(ChunksOf(Head(pending))), fault)
    /\ LET f == Head(pending)
           e == UploadMultipleFile(f, model, store, Live, uuids, fault)
           rec == [Called("upload_multiple_file") EXCEPT
                       !.file = f, !.fault = fault, !.err = e.out.err,
                       !.saved = e.saved, !.ingested = e.ingested,
                       !.stages = e.out.stages, !.produced = e.out.produced,
                       !.loads = e.out.loads, !.clash = e.out.clash]
       IN /\ store' = e.out.store
          /\ model' = e.out.model
          /\ loadTried' = (loadTried \/ e.out.loads > 0)
          /\ sinceReset' = (sinceReset /\ e.status # "success")
          /\ unwritten' = (unwritten /\ e.out.store = store)
          /\ IF e.raised
             THEN /\ pc' = "idle"
                  /\ pending' = <<>>
                  /\ files' = <<>>
                  /\ results' = <<>>
                  /\ last' = [rec EXCEPT !.op = "upload_multiple", !.code = 500,
                                         !.files = files, !.results = results]
             ELSE /\ pc' = pc
                  /\ pending' = Tail(pending)
                  /\ files' = files
                  /\ results' = Append(results, [filename |-> f, status |-> e.status,
                                                 message |-> e.out.err])
                  /\ last' = rec
    /\ UNCHANGED <<exists, bound>>

\* the loop is over: return {"results": results}
UploadMultipleReturn ==
    /\ pc = "upload_multiple"
    /\ pending = <<>>
    /\ pc' = "idle"
    /\ last' = [Called("upload_multiple") EXCEPT !.code = 200, !.files = files,
                                                 !.results = results]
    /\ files' = <<>>
    /\ results' = <<>>
    /\ UNCHANGED <<store, exists, bound, model, pending, sinceReset, unwritten, loadTried>>

\* POST /query
Query(question, k, fault, approx) ==
    /\ pc = "idle"
    /\ LET r == query(question, k, model, store, Live, fault, approx)
       IN /\ model' = r.model
          /\ loadTried' = (loadTried \/ r.loads > 0)
          /\ last' = [Called("query") EXCEPT
                          !.question = question, !.k = k, !.fault = fault,
                          !.err = r.err, !.code = IF r.err = "none" THEN 200 ELSE 500,
                          !.hits = r.hits, !.answer = r.answer, !.sources = r.sources,
                          !.llmCalls = r.llmCalls, !.loads = r.loads]
    /\ UNCHANGED <<store, exists, bound, pc, files, pending, results, sinceReset, unwritten>>

\* GET /stats: rag_system.vector_store.collection.count(); an exception of
\* it, on a deleted collection or from the backend, becomes a 500
Stats(fault) ==
    /\ pc = "idle"
    /\ last' = IF Live /\ fault # "count"
               THEN [Called("stats") EXCEPT !.fault = fault, !.code = 200,
                                            !.total = Len(store)]
               ELSE [Called("stats") EXCEPT !.fault = fault, !.code = 500,
                                            !.err = "StoreError"]
    /\ UNCHANGED <<store, exists, bound, model, pc, files, pending, results,
                   sinceReset, unwritten, loadTried>>

\* DELETE /reset
Reset(fault) ==
    /\ pc = "idle"
    /\ LET r == reset_collection(store, exists, bound, fault)
       IN /\ store' = r.store
          /\ exists' = r.exists
          /\ bound' = r.bound
          /\ sinceReset' = (r.err = "none")
          /\ unwritten' = (r.err = "none")
          /\ last' = [Called("reset") EXCEPT
                          !.fault = fault, !.err = r.err,
                          !.code = IF r.err = "none" THEN 200 ELSE 500]
    /\ UNCHANGED <<model, pc, files, pending, results, loadTried>>

\* GET /health
Health ==
    /\ pc = "idle"
    /\ last' = [Called("health") EXCEPT !.code = 200]
    /\ UNCHANGED <<store, exists, bound, model, pc, files, pending, results,
                   sinceReset, unwritten, loadTried>>

\* the collaborator failures that can occur while directory d is ingested
DirFaultsFor(d) ==
    IF process_all_pdfs(d).err # "none" THEN {"none"}
    ELSE IF model = "None" THEN IngestFaults ELSE IngestFaults \ {"modelload"}

\* RAGSystem.ingest_directory called on directory d
IngestDirectory(d, uuids, fault) ==
    /\ pc = "idle"
    /\ Len(store) + Len(DirChunks(d)) <= MaxStore
    /\ LET r == ingest_directory(d, model, store, Live, uuids, fault)
       IN /\ store' = r.store
          /\ model' = r.model
          /\ loadTried' = (loadTried \/ r.loads > 0)
          /\ sinceReset' = (sinceReset /\ r.err # "none")
          /\ unwritten' = (unwritten /\ r.store = store)
          /\ last' = [WithIngest(Called("ingest_directory"), r, fault) EXCEPT
                          !.dir = d, !.saved = FALSE]
    /\ UNCHANGED <<exists, bound, pc, files, pending, results>>

\* VectorStoreManager.add_documents called with the chunks of file f and ne
\* embeddings
AddDocuments(f, ne, uuids, fault) ==
    /\ pc = "idle"
    /\ Len(store) + Len(ChunksOf(f)) <= MaxStore
    /\ LET docs == ChunksOf(f)
           embs == [i \in 1..ne |->
                       IF i <= Len(docs) THEN Encode(docs[i].page_content) ELSE 0]
           r == add_documents(store, Live, docs, embs, uuids, fault)
       IN /\ store' = r.store
          /\ sinceReset' = (sinceReset /\ r.err # "none")
          /\ unwritten' = (unwritten /\ r.store = store)
          /\ last' = [Called("add_documents") EXCEPT
                          !.file = f, !.fault = fault, !.err = r.err, !.nDocs = Len(docs), !.nEmb = ne,
                          !.clash = r.clash]
    /\ UNCHANGED <<exists, bound, model, pc, files, pending, results, loadTried>>

Next ==
    \/ \E f \in FileNames :
       \E fault \in (IF Suffix(f) = ".pdf" THEN FaultsFor(f) ELSE {"none"}) :
       \E uuids \in UuidDraws(IF Suffix(f) = ".pdf" THEN Len(ChunksOf(f)) ELSE 0, fault) :
           UploadPdf(f, uuids, fault)
    \/ \E f \in FileNames :
       \E fault \in (IF Suffix(f) \in {".xlsx", ".xls"} THEN FaultsFor(f) ELSE {"none"}) :
       \E uuids \in UuidDraws(IF Suffix(f) \in {".xlsx", ".xls"} THEN Len(ChunksOf(f)) ELSE 0,
                              fault) :
           UploadExcel(f, uuids, fault)
    \/ \E fs \in MultiRequests : UploadMultipleStart(fs)
    \/ \E uuids \in UNION {UuidChoices(n) : n \in 0..Len(ChunksOf("a.pdf"))} :
       \E fault \in IngestFaults : UploadMultipleStep(uuids, fault)
    \/ UploadMultipleReturn
    \/ \E question \in Questions : \E k \in TopKs :
       \E fault \in (IF model = "None" THEN QueryFaults ELSE QueryFaults \ {"modelload"}) :
       \E approx \in (IF fault \in {"none", "llm"}
                      THEN Approximations(store, Encode(question), k)
                      ELSE {ExactSearch}) :
           Query(question, k, fault, approx)
    \/ \E fault \in StatsFaults : Stats(fault)
    \/ \E fault \in ResetFaults : Reset(fault)
    \/ Health
    \/ \E f \in {"a.pdf", "b.xlsx"} : \E ne \in 0..Len(ChunksOf("a.pdf")) :
       \E fault \in (IF ne = Len(ChunksOf(f)) THEN AddFaults ELSE {"none"}) :
       \E uuids \in (IF ne = Len(ChunksOf(f)) THEN UuidChoices(ne)
                     ELSE {[i \in 1..Min(Len(ChunksOf(f)), ne) |-> 1]}) :
           AddDocuments(f, ne, uuids, fault)
    \/ \E d \in DirNames : \E fault \in DirFaultsFor(d) :
       \E uuids \in UuidDraws(Len(DirChunks(d)), fault) : IngestDirectory(d, uuids, fault)

Spec == Init /\ [][Next]_vars

(***************************************************************************)
(* Properties.                                                             *)
(***************************************************************************)
IngestCall == last.ingested
SingleUpload == last.op \in {"upload_pdf", "upload_excel"}
Supported(f) == Suffix(f) \in {".pdf", ".xlsx", ".xls"}
IsPrefix(s, t) == Len(s) <= Len(t) /\ \A i \in 1..Len(s) : s[i] = t[i]

\* C1: every ingest that returns without error leaves count() at its value
\* before the ingest plus the number of chunks the splitter produced.
C1_IngestAddsEveryChunk ==
    (IngestCall /\ last.err = "none") => Len(store) = last.countBefore + last.produced

\* C2: a query on a collection with no records never calls the language
\* model and, when it returns, returns the fixed sentence with no sources; it
\* returns unless the embedding model or the store raises.  In every query the
\* language model is called once when the retrieval returned records and not
\* at all otherwise.
C2_EmptyStoreAnswer ==
    last.op = "query" =>
        LET retrieved == last.err \in {"none", "GenerationError"}
            found == Nearest(store, Encode(last.question), last.k, "first")
        IN /\ (Live /\ store = <<>>) =>
                  /\ last.llmCalls = 0
                  /\ last.err = "none" =>
                         last.answer = NoDocsAnswer /\ last.sources = <<>> /\ last.code = 200
                  /\ last.fault \notin {"modelload", "encode", "query"} => last.err = "none"
           /\ retrieved => last.llmCalls = (IF found # <<>> THEN 1 ELSE 0)
           /\ ~retrieved => last.llmCalls = 0

C2_Witness ==
    /\ last.op = "query"
    /\ Live /\ store = <<>>
    /\ last.err = "none"
    /\ last.answer = NoDocsAnswer
    /\ last.llmCalls = 0

\* what holds of the collection throughout a window that a reset opened:
\* the handle is on the recreated collection, the collection is empty, every
\* count() that returns returns 0 and every query that returns has an empty
\* result; no call fails because its collection was deleted
EmptyAfterReset(window) ==
    window =>
           /\ Live
           /\ store = <<>>
           /\ last.op = "stats" =>
                  /\ last.err = "StoreError" => last.fault = "count"
                  /\ last.err = "none" => (last.code = 200 /\ last.total = 0)
           /\ last.op = "query" =>
                  /\ last.err = "StoreError" => last.fault = "query"
                  /\ last.err = "none" =>
                         /\ last.hits = <<>>
                         /\ last.sources = <<>>
                         /\ last.answer = NoDocsAnswer
           /\ (IngestCall /\ Len(last.stages) = 4) =>
                  (last.err = "StoreError" => last.fault = "add")

\* C3 as stated: from a reset that returned until an ingest succeeds, the
\* handle is on the recreated collection, the collection is empty, count()
\* returns 0 and every query that returns has an empty result.
C3_EmptyUntilIngestSucceeds ==
    /\ (last.op = "reset" /\ last.err = "none") => sinceReset
    /\ EmptyAfterReset(sinceReset)

\* C3 amended: from a reset that returned until a collection.add of an ingest
\* has written, whether or not that ingest then returned, the handle is on
\* the recreated collection, the collection is empty, count() returns 0 and
\* every query that returns has an empty result; until an ingest succeeds
\* the handle stays on the recreated collection.
C3_ResetLeavesEmptyCollection ==
    /\ (last.op = "reset" /\ last.err = "none") => unwritten
    /\ EmptyAfterReset(unwritten)
    /\ sinceReset => Live

C3_Witness ==
    /\ last.op = "reset"
    /\ last.err = "none"
    /\ last.countBefore > 0
    /\ store = <<>>

\* the hits of a query whose retrieval returned are exactly min(n, k) of the
\* n stored records, no record twice, nearest to the question first; with
\* n <= k they are all the stored records; the sources of the answer are the
\* hits in their order, with ranks 1, 2, ...
RankedHits ==
    (last.op = "query" /\ last.err \in {"none", "GenerationError"}) =>
        LET q == Encode(last.question)
            h == last.hits
        IN /\ Len(h) = Min(Len(store), last.k)
           /\ \A i \in 1..Len(h) : \E j \in 1..Len(store) : store[j] = h[i]
           /\ \A i, j \in 1..Len(h) : i # j => h[i].id # h[j].id
           /\ \A i, j \in 1..Len(h) :
                  i < j => Distance(q, h[i].embedding) <= Distance(q, h[j].embedding)
           /\ Len(store) <= last.k => IdsOf(h) = IdsOf(store)
           /\ last.err = "none" =>
                  /\ Len(last.sources) = Len(h)
                  /\ \A i \in 1..Len(h) :
                         /\ last.sources[i].content = h[i].document
                         /\ last.sources[i].metadata = h[i].metadata
                         /\ last.sources[i].relevance_rank = i

\* none of the stored records left out of the hits is nearer to the question
\* than a record among them
HitsAreTheNearest ==
    (last.op = "query" /\ last.err \in {"none", "GenerationError"}) =>
        \A j \in 1..Len(store) :
            store[j].id \notin IdsOf(last.hits) =>
                \A i \in 1..Len(last.hits) :
                    Distance(Encode(last.question), last.hits[i].embedding)
                        <= Distance(Encode(last.question), store[j].embedding)

C5_StagesOfLastIngest ==
    IngestCall =>
        /\ last.stages # <<>>
        /\ IsPrefix(last.stages, <<"load", "split", "embed", "insert">>)
        /\ last.loads <= 1
        /\ ~Parsable(last.file) => last.err = "ExtractionError"
        /\ (\E i \in 1..Len(DirPdfs(last.dir)) : ~Parsable(DirPdfs(last.dir)[i]))
               => last.err = "ExtractionError"
        /\ last.fault = "split" => last.err = "SplitError"
        /\ last.fault = "modelload" => last.err = "ModelLoadError"
        /\ last.fault = "encode" => last.err = "EncodeError"
        /\ last.err = "ExtractionError" => last.stages = <<"load">>
        /\ last.err = "SplitError" => last.stages = <<"load", "split">>
        /\ last.err \in {"ModelLoadError", "EncodeError"} =>
               last.stages = <<"load", "split", "embed">>
        /\ last.err = "none" => Len(last.stages) = 4
        /\ (SingleUpload /\ last.err # "none") => last.code = 500

C5_FailedStageWritesNothing ==
    (last'.ingested
        /\ last'.err \in {"ExtractionError", "SplitError", "ModelLoadError", "EncodeError"})
    => store' = store

\* C5: in every state the last ingest entered its stages in order and
\* stopped at the one that raised, with that stage's error, and on every step
\* an ingest that failed before the insert left the collection's records as
\* they were.
C5_IngestAbortsAtFailingStage ==
    [] C5_StagesOfLastIngest /\ [][C5_FailedStageWritesNothing]_vars

C5_Witness ==
    /\ IngestCall
    /\ last.err = "EncodeError"
    /\ last.stages = <<"load", "split", "embed">>
    /\ store # <<>>

\* C6: add_documents called with a different number of documents and
\* embeddings raises the arity error and leaves every record of the
\* collection, and so its count, as it was.
C6_ArityMismatchWritesNothing ==
    [][(last'.op = "add_documents" /\ last'.nDocs # last'.nEmb)
           => (last'.err = "ArityMismatchError" /\ store' = store)]_vars

C6_Witness ==
    /\ last.op = "add_documents"
    /\ last.nDocs # last.nEmb
    /\ last.err = "ArityMismatchError"
    /\ store # <<>>

\* what /upload-multiple returns whatever the files are: 200, and one entry
\* per file in the order of the request, each success, skipped or error
UploadMultipleAnswersEveryFile ==
    last.op = "upload_multiple" =>
        /\ last.code = 200
        /\ Len(last.results) = Len(last.files)
        /\ \A i \in 1..Len(last.results) :
               /\ last.results[i].filename = last.files[i]
               /\ last.results[i].status \in {"success", "skipped", "error"}
               /\ last.results[i].status = "success" => Supported(last.files[i])

\* one pass of the loop appends the entry of the file it took up and goes on
\* to the next file; no pass removes or changes a stored record, a pass that
\* skipped the file or failed before collection.add returned leaves the
\* collection as it was, and a file of an unsupported type is never ingested;
\* the entry is "error" exactly when the save or the ingest of the file
\* raised, whatever raised in it, and "success" exactly when the file was
\* ingested and the ingest returned
UploadMultiplePassIsIsolated ==
    (pc = "upload_multiple" /\ pending # <<>>) =>
        /\ pc' = "upload_multiple"
        /\ pending' = Tail(pending)
        /\ Len(results') = Len(results) + 1
        /\ SubSeq(results', 1, Len(results)) = results
        /\ results'[Len(results')].filename = Head(pending)
        /\ (results'[Len(results')].status # "success" /\ last'.fault # "count")
               => store' = store
        /\ IsPrefix(store, store')
        /\ ~Supported(Head(pending)) => (~last'.ingested /\ store' = store)
        /\ results'[Len(results')].status = "error" <=> last'.err # "none"
        /\ results'[Len(results')].status = "success"
               <=> (last'.ingested /\ last'.err = "none")
        /\ last'.fault # "none" => results'[Len(results')].status = "error"

\* C7 as stated: /upload-multiple never fails as a whole, answers every file
\* in order, isolates the files from one another and marks every file of an
\* unsupported type "skipped".
C7_UnsupportedAlwaysSkipped ==
    /\ UploadMultipleAnswersEveryFile
    /\ last.op = "upload_multiple" =>
           \A i \in 1..Len(last.results) :
               ~Supported(last.files[i]) => last.results[i].status = "skipped"

\* as above, but a file of an unsupported type is marked "skipped" when it
\* was saved under the upload directory and "error" when saving it raised;
\* a file that cannot be loaded, and every file whose entry carries the
\* message of an exception, is marked "error"
C7_SkippedOrSaveError ==
    /\ UploadMultipleAnswersEveryFile
    /\ last.op = "upload_multiple" =>
           \A i \in 1..Len(last.results) :
               LET f == last.files[i]
               IN /\ (~Supported(f) /\ Savable(f)) => last.results[i].status = "skipped"
                  /\ ~Savable(f) => last.results[i].status = "error"
                  /\ last.results[i].status = "skipped" => ~Supported(f)
                  /\ (Supported(f) /\ Savable(f) /\ ~Parsable(f))
                         => last.results[i].status = "error"
                  /\ last.results[i].status = "error" <=> last.results[i].message # "none"

\* C7 amended: /upload-multiple never fails as a whole and answers every
\* file in order with success, skipped or error; a file of an unsupported
\* type is never ingested and is marked "skipped" when it was saved and
\* "error" when saving it raised; a file whose save or ingestion raises is
\* marked "error" and no other file is; a pass that ends in error keeps what
\* the passes before it stored and the loop goes on to the next file.
C7_UploadMultipleIsolatesFiles ==
    [] C7_SkippedOrSaveError /\ [][UploadMultiplePassIsIsolated]_vars

C7_Witness ==
    /\ last.op = "upload_multiple"
    /\ \E i, j \in 1..Len(last.results) :
           /\ i < j
           /\ last.results[i].status = "error"
           /\ last.results[j].status = "success"
    /\ store # <<>>

\* C8: a step that is not a reset keeps every stored record, with its id,
\* text and metadata, at its place, so count() does not decrease.
C8_RecordsStayUntilReset ==
    [][last'.op # "reset" =>
           /\ Len(store') >= Len(store)
           /\ \A i \in 1..Len(store) : store'[i] = store[i]]_vars

C8_Witness ==
    /\ IngestCall
    /\ last.err = "none"
    /\ last.countBefore > 0
    /\ Len(store) > last.countBefore

\* C9: the ids of the stored records are pairwise different and no insert
\* generates an id the collection already holds.
C9_GeneratedIdsAreNew ==
    /\ \A i, j \in 1..Len(store) : i # j => store[i].id # store[j].id
    /\ ~last.clash

\* C10 as stated: once a load of the embedding model has been attempted, no
\* later call loads it again.
C10_NoLoadAfterAnAttempt ==
    [][loadTried => last'.loads = 0]_vars

\* the call reached generate_embeddings
EmbedsCall(l) == l.op = "query" \/ (l.ingested /\ Len(l.stages) >= 3)

\* C10 amended: once a load has succeeded the model stays loaded and no later
\* call loads it again; while the model is not loaded, which includes the
\* time after a failed load, every call of generate_embeddings attempts one
\* load.
C10_NoLoadAfterASuccess ==
    [][/\ model = "loaded" => (model' = "loaded" /\ last'.loads = 0)
       /\ (model = "None" /\ EmbedsCall(last')) => last'.loads = 1
       /\ last'.loads <= 1]_vars

C10_Witness ==
    /\ last.op = "query"
    /\ last.err = "none"
    /\ last.loads = 0
    /\ model = "loaded"
    /\ loadTried

\* while a handler is between its first line and its return, every step is a
\* step of that handler: no other request starts
HandlerRunsToCompletion ==
    pc # "idle" => last'.op \in {"upload_multiple_file", "upload_multiple"}

\* a step of an HTTP request changes the collection only by appending all the
\* chunks of an ingest that returned, in order, or by emptying it in a reset
\* that returned
StoreFollowsCompletedRequests ==
    LET l == last'
        chunks == ChunksOf(l.file)
    IN CASE l.op \in {"add_documents", "ingest_directory"} -> TRUE
         [] l.ingested /\ l.err = "none" ->
                /\ Len(store') = Len(store) + Len(chunks)
                /\ IsPrefix(store, store')
                /\ \A i \in 1..Len(chunks) :
                       store'[Len(store) + i].document = chunks[i].page_content
         [] l.op = "reset" /\ l.err = "none" -> store' = <<>>
         [] OTHER -> store' = store

\* C11: every HTTP handler runs from its start to its return with no other
\* request in between, so no reset and no query falls between the stages of
\* an ingest, and the collection holds exactly the chunks of the ingests that
\* returned after the last reset that returned: each such ingest appends all
\* its chunks, such a reset empties the collection, nothing else changes it.
C11_RequestsSerializedOnStore ==
    [][HandlerRunsToCompletion /\ StoreFollowsCompletedRequests]_vars
============================================================================
